---- MODULE Spec2Model ----
(***************************************************************************)
(* Planetary alignment finder (ecliptic).                                  *)
(*                                                                         *)
(*   src/ecliptic/basic_scan.py   exhaustive day-by-day scan + merge       *)
(*   src/visualize_alignments.py  compute_spans (same scan, no merge)      *)
(*   src/eclipse2.py              analytic candidates + verification       *)
(*                                                                         *)
(* Angles are integer degrees, days are integers.  Epochs of the analytic  *)
(* path are exact rationals (offset from t0 in days, numerator over        *)
(* denominator), so that the division of the source is modelled exactly.   *)
(***************************************************************************)
EXTENDS Integers, Sequences, FiniteSets, TLC

VARIABLES
    \* ---- circular span, both implementations (pure functions) ----
    angles_deg,      \* the argument list
    span_basic,      \* outcome of basic_scan._circular_span_deg
    span_ecl,        \* outcome of eclipse2.circular_span_deg
    \* ---- exhaustive scan: list_planetary_alignments / compute_spans ----
    fn,              \* which of the two functions is running
    planets,         \* argument: list of body names
    start_day,       \* argument
    end_day,         \* argument
    span_threshold_deg, \* argument
    pc,              \* position in the function
    sess,            \* the open requests.Session of the with-block (0: none)
    sessions,        \* number of sessions constructed so far
    d,               \* loop variable: current day
    lons,            \* longitudes fetched for the current day
    hits,            \* list of <<day, span>> (days, spans of compute_spans)
    fetchLog,        \* every request issued: [day, body, sess, parsed]
    dayLog,          \* history: span computed on each completed day
    ret,             \* the returned value (list of AlignmentHit)
    exc,             \* the exception that left the function, or "none"
    \* ---- analytic candidates: eclipse2.main ----
    apc,             \* position in main
    asess,           \* the open requests.Session of the with-block (0: none)
    asessions,       \* number of sessions constructed so far
    elems,           \* elements fetched so far, in PLANET_IDS order
    cand,            \* candidate epochs
    ci,              \* index of the candidate being verified
    alons,           \* longitudes fetched for the current candidate
    ahits,           \* list of <<candidate, span>>
    afetchLog,       \* every request issued: [kind, cand, body, sess, parsed]
    aexc             \* the exception that left main, or "none"

spanVars == <<angles_deg, span_basic, span_ecl>>
scanVars == <<fn, planets, start_day, end_day, span_threshold_deg, pc, sess,
              sessions, d, lons, hits, fetchLog, dayLog, ret, exc>>
anaVars  == <<apc, asess, asessions, elems, cand, ci, alons, ahits,
              afetchLog, aexc>>
vars     == <<spanVars, scanVars, anaVars>>

-----------------------------------------------------------------------------
(* Generic list helpers (Python built-ins used by the source).             *)

RECURSIVE Insert(_, _)
Insert(x, s) ==
    IF s = <<>> THEN <<x>>
    ELSE IF x <= Head(s) THEN <<x>> \o s
    ELSE <<Head(s)>> \o Insert(x, Tail(s))

RECURSIVE sorted(_)
sorted(s) == IF s = <<>> THEN <<>> ELSE Insert(Head(s), sorted(Tail(s)))

RECURSIVE max(_)
max(s) ==
    IF Len(s) = 1 THEN s[1]
    ELSE LET m == max(Tail(s)) IN IF Head(s) >= m THEN Head(s) ELSE m

Max2(a, b) == IF a >= b THEN a ELSE b

-----------------------------------------------------------------------------
(* Angular geometry.                                                       *)

\* basic_scan._circular_span_deg without the wrap-around gap
_circular_span_deg_nowrap(angles) ==
    IF angles = <<>> THEN 0
    ELSE LET a == sorted([i \in 1..Len(angles) |-> angles[i] % 360])
         IN  IF Len(a) = 1 THEN 0
             ELSE 360 - max([i \in 1..(Len(a) - 1) |-> a[i + 1] - a[i]])

_circular_span_deg(angles) ==
    IF angles = <<>> THEN 0
    ELSE LET a == sorted([i \in 1..Len(angles) |-> angles[i] % 360])
         IN  IF Len(a) = 1 THEN 0
             ELSE LET gaps == [i \in 1..(Len(a) - 1) |-> a[i + 1] - a[i]]
                              \o <<(a[1] + 360) - a[Len(a)]>>
                      largest_gap == max(gaps)
                  IN  360 - largest_gap

\* eclipse2.circular_span_deg without the normalisation into [0,360)
circular_span_deg_nomod(angles) ==
    LET a == sorted(angles)
    IN  IF a = <<>> THEN [exc |-> "IndexError", val |-> 0]
        ELSE LET gaps == [i \in 1..(Len(a) - 1) |-> a[i + 1] - a[i]]
                         \o <<a[1] + 360 - a[Len(a)]>>
             IN  [exc |-> "none", val |-> 360 - max(gaps)]

\* eclipse2.circular_span_deg: no guard for short lists; a[0] of the empty
\* list raises IndexError.
circular_span_deg(angles) ==
    LET a == sorted([i \in 1..Len(angles) |-> angles[i] % 360])
    IN  IF a = <<>> THEN [exc |-> "IndexError", val |-> 0]
        ELSE LET gaps == [i \in 1..(Len(a) - 1) |-> a[i + 1] - a[i]]
                         \o <<a[1] + 360 - a[Len(a)]>>
             IN  [exc |-> "none", val |-> 360 - max(gaps)]

-----------------------------------------------------------------------------
(* Horizons responses.  A response is the HTTP outcome plus the JSON body; *)
(* the "result" text is kept as what the parsers look at: whether a        *)
(* $$SOE..$$EOE block exists and the lines of the block, each line the     *)
(* list of its comma-separated fields.  A field is                         *)
(*   num  : a number starting with a digit or '-'      ("123.4")           *)
(*   pad  : a number preceded by white space           (" 123.4")          *)
(*   date : starts with a digit but is no number       ("2026-Jan-01")     *)
(*   text : anything else                              ("n.a.", "")        *)

Num(v)  == [kind |-> "num",  val |-> v]
Pad(v)  == [kind |-> "pad",  val |-> v]
DateFld == [kind |-> "date", val |-> 0]
TextFld == [kind |-> "text", val |-> 0]

\* float(p.strip()) succeeds
IsFloat(p) == p.kind \in {"num", "pad"}
\* re.match(r"^-?\d", v) on the unstripped field
StartsWithDigit(v) == v.kind \in {"num", "date"}

Response(http_ok, has_result, soe, block) ==
    [http_ok |-> http_ok, has_result |-> has_result, soe |-> soe, block |-> block]

\* A well-formed observer table row carrying longitude v.
GoodResponse(v) ==
    Response(TRUE, TRUE, TRUE, << <<>>, <<TextFld, TextFld, Num(v), Num(-1)>> >>)
\* The same row with white space before each number.
PaddedResponse(v) ==
    Response(TRUE, TRUE, TRUE, << <<TextFld, Pad(v), Pad(2)>> >>)
HttpErrorResponse == Response(FALSE, FALSE, FALSE, <<>>)
NoResultResponse  == Response(TRUE, FALSE, FALSE, <<>>)
NoBlockResponse   == Response(TRUE, TRUE, FALSE, <<>>)
EmptyBlockResponse == Response(TRUE, TRUE, TRUE, << <<>>, <<>> >>)
OneNumberResponse == Response(TRUE, TRUE, TRUE, << <<TextFld, Num(7), TextFld>> >>)
DateRowResponse   == Response(TRUE, TRUE, TRUE, << <<DateFld, Num(5), Num(1)>> >>)

BadResponses == {HttpErrorResponse, NoResultResponse, NoBlockResponse,
                 EmptyBlockResponse, OneNumberResponse}

Ok(v)     == [exc |-> "none", val |-> v]
Raise(e)  == [exc |-> e, val |-> 0]

\* lines = [ln.strip() for ln in block.splitlines() if ln.strip()]
NonEmptyLines(block) == SelectSeq(block, LAMBDA ln : ln # <<>>)

\* The fields of a line that float() accepts, last field first
\* (for p in reversed(parts): try float(p) except ValueError: continue).
RECURSIVE FloatsReversed(_)
FloatsReversed(parts) ==
    IF parts = <<>> THEN <<>>
    ELSE LET rest == FloatsReversed(Tail(parts))
         IN  IF IsFloat(Head(parts)) THEN rest \o <<Head(parts).val>> ELSE rest

\* _parse_lon_from_result_text with a fallback longitude instead of raising
_parse_lon_fallback(soe, block) ==
    IF ~soe THEN Ok(0)
    ELSE LET lines == NonEmptyLines(block)
         IN  IF lines = <<>> THEN Ok(0)
             ELSE LET floats == FloatsReversed(lines[1])
                  IN  IF Len(floats) < 2 THEN Ok(0)
                      ELSE Ok(floats[2] % 360)

_parse_lon_from_result_text(soe, block) ==
    IF ~soe THEN Raise("ValueError")
    ELSE LET lines == NonEmptyLines(block)
         IN  IF lines = <<>> THEN Raise("ValueError")
             ELSE LET floats == FloatsReversed(lines[1])
                  IN  IF Len(floats) < 2 THEN Raise("ValueError")
                      ELSE Ok(floats[2] % 360)

\* fetch_geocentric_ecliptic_longitude, from the response on
\* (raise_for_status, "result" in data, parse).
fetch_geocentric_ecliptic_longitude(r) ==
    IF ~r.http_ok THEN Raise("HTTPError")
    ELSE IF ~r.has_result THEN Raise("ValueError")
    ELSE _parse_lon_from_result_text(r.soe, r.block)

\* The response text holds a longitude for basic_scan: the first non-blank
\* line of the $$SOE block has at least two fields that are numbers.
HasLongitude(r) ==
    /\ r.http_ok /\ r.has_result /\ r.soe
    /\ \E i \in 1..Len(r.block) :
          /\ r.block[i] # <<>>
          /\ \A j \in 1..(i - 1) : r.block[j] = <<>>
          /\ Cardinality({f \in 1..Len(r.block[i]) : IsFloat(r.block[i][f])}) >= 2

\* s = session or requests.Session(): 0 stands for None, a fresh session
\* gets the next number.
NewSessionAlways(session, made) == made + 1

SessionOrNew(session, made) == IF session # 0 THEN session ELSE made + 1

-----------------------------------------------------------------------------
(* Exhaustive scan: basic_scan.list_planetary_alignments and               *)
(* visualize_alignments.compute_spans.                                     *)

MaxDay     == 4    \* days are 1..MaxDay
MaxPlanets == 2    \* longest planets argument

PLANET_IDS ==
    [p \in {"Mercury", "Venus", "Mars", "Jupiter", "Saturn", "Uranus", "Neptune"}
       |-> CASE p = "Mercury" -> "199" [] p = "Venus"  -> "299"
             [] p = "Mars"    -> "499" [] p = "Jupiter" -> "599"
             [] p = "Saturn"  -> "699" [] p = "Uranus" -> "799"
             [] p = "Neptune" -> "899"]

\* Names the caller may pass: two known ones and one that is not in PLANET_IDS.
NamePool   == {"Mars", "Jupiter", "Pluto"}
Days       == 1..MaxDay
Thresholds == {0, 10}
ScanResponses ==
    {GoodResponse(0), PaddedResponse(370), GoodResponse(-10)} \cup BadResponses

PlanetLists == UNION {[1..n -> NamePool] : n \in 0..MaxPlanets}

\* for p in planets: if p not in PLANET_IDS: raise -- looking at planets[0] only
HasUnknownNameFirstOnly(ps) == ps # <<>> /\ ps[1] \notin DOMAIN PLANET_IDS

\* for p in planets: if p not in PLANET_IDS: raise ValueError
HasUnknownName(ps) == \E i \in 1..Len(ps) : ps[i] \notin DOMAIN PLANET_IDS

\* span < span_threshold_deg
IsHitStrict(span, threshold) == span < threshold

\* span <= span_threshold_deg
IsHit(span, threshold) == span <= threshold

\* d <= cur_end + 2: a one-day gap does not end the run
IsNextDayOrGap(day, cur_end) == day > cur_end /\ day <= cur_end + 2

\* d == cur_end + timedelta(days=1)
IsNextDay(day, cur_end) == day = cur_end + 1

AlignmentHit(start, end, ps, max_span_deg) ==
    [start |-> start, end |-> end, planets |-> ps, max_span_deg |-> max_span_deg]

\* The loop "for (d, span) in hits[1:]" with its three running variables.
RECURSIVE MergeLoop(_, _, _, _, _, _)
MergeLoop(rest, cur_start, cur_end, cur_max_span, intervals, ps) ==
    IF rest = <<>>
    THEN Append(intervals, AlignmentHit(cur_start, cur_end, ps, cur_max_span))
    ELSE LET day  == Head(rest)[1]
             span == Head(rest)[2]
         IN  IF IsNextDay(day, cur_end)
             THEN MergeLoop(Tail(rest), cur_start, day,
                            Max2(cur_max_span, span), intervals, ps)
             ELSE MergeLoop(Tail(rest), day, day, span,
                            Append(intervals,
                                   AlignmentHit(cur_start, cur_end, ps, cur_max_span)),
                            ps)

\* "Merge consecutive days into intervals"
MergeHits(hs, ps) ==
    IF hs = <<>> THEN <<>>
    ELSE MergeLoop(Tail(hs), hs[1][1], hs[1][1], hs[1][2], <<>>, ps)

ScanIdle ==
    /\ fn = "none" /\ planets = <<>> /\ start_day = 0 /\ end_day = 0
    /\ span_threshold_deg = 0 /\ pc = "idle" /\ sess = 0 /\ sessions = 0
    /\ d = 0 /\ lons = <<>> /\ hits = <<>> /\ fetchLog = <<>> /\ dayLog = <<>>
    /\ ret = <<>> /\ exc = "none"

ScanInit ==
    /\ fn \in {"list_planetary_alignments", "compute_spans"}
    /\ planets \in PlanetLists
    /\ start_day \in Days
    /\ end_day \in Days
    /\ span_threshold_deg \in Thresholds
    /\ pc = "start" /\ sess = 0 /\ sessions = 0
    /\ d = 0 /\ lons = <<>> /\ hits = <<>> /\ fetchLog = <<>> /\ dayLog = <<>>
    /\ ret = <<>> /\ exc = "none"

\* Entry: the validation loop, then the with-statement opens the session.
Call ==
    /\ pc = "start"
    /\ IF HasUnknownName(planets)
       THEN /\ pc' = "raised"
            /\ exc' = "ValueError"
            /\ UNCHANGED <<sess, sessions, d>>
       ELSE /\ pc' = "loop"
            /\ sessions' = sessions + 1
            /\ sess' = sessions + 1
            /\ d' = start_day
            /\ exc' = exc
    /\ UNCHANGED <<fn, planets, start_day, end_day, span_threshold_deg, lons,
                   hits, fetchLog, dayLog, ret>>
    /\ UNCHANGED <<spanVars, anaVars>>

\* One iteration of "for p in planets": one request.  An exception leaves
\* the with-block, whose exit closes the session, and then the function.
Fetch ==
    /\ pc = "loop"
    /\ d <= end_day
    /\ Len(lons) < Len(planets)
    /\ LET p == planets[Len(lons) + 1] IN
       IF p \notin DOMAIN PLANET_IDS
       THEN /\ pc' = "raised" /\ exc' = "KeyError" /\ sess' = 0
            /\ UNCHANGED <<sessions, lons, fetchLog>>
       ELSE \E r \in ScanResponses :
            LET s   == SessionOrNew(sess, sessions)
                out == fetch_geocentric_ecliptic_longitude(r)
            IN  /\ sessions' = IF s = sess THEN sessions ELSE sessions + 1
                /\ fetchLog' = Append(fetchLog,
                       [day |-> d, body |-> PLANET_IDS[p], sess |-> s,
                        parsed |-> HasLongitude(r)])
                /\ IF out.exc # "none"
                   THEN /\ pc' = "raised" /\ exc' = out.exc /\ sess' = 0
                        /\ lons' = lons
                   ELSE /\ lons' = Append(lons, out.val)
                        /\ UNCHANGED <<pc, exc, sess>>
    /\ UNCHANGED <<fn, planets, start_day, end_day, span_threshold_deg, d,
                   hits, dayLog, ret>>
    /\ UNCHANGED <<spanVars, anaVars>>

\* The rest of the while body once every body was fetched: the span, the
\* hit test (compute_spans records every day) and d += 1.
EndDay ==
    /\ pc = "loop"
    /\ d <= end_day
    /\ Len(lons) = Len(planets)
    /\ LET span == _circular_span_deg(lons) IN
       /\ hits' = IF fn = "compute_spans" \/ IsHit(span, span_threshold_deg)
                  THEN Append(hits, <<d, span>>) ELSE hits
       /\ dayLog' = Append(dayLog, <<d, span>>)
    /\ d' = d + 1
    /\ lons' = <<>>
    /\ UNCHANGED <<fn, planets, start_day, end_day, span_threshold_deg, pc,
                   sess, sessions, fetchLog, ret, exc>>
    /\ UNCHANGED <<spanVars, anaVars>>

\* d > end_day: the with-block ends (session closed), the hits are merged
\* and returned (compute_spans returns days and spans as they are).
Finish ==
    /\ pc = "loop"
    /\ d > end_day
    /\ sess' = 0
    /\ ret' = IF fn = "compute_spans" THEN hits ELSE MergeHits(hits, planets)
    /\ pc' = "returned"
    /\ UNCHANGED <<fn, planets, start_day, end_day, span_threshold_deg,
                   sessions, d, lons, hits, fetchLog, dayLog, exc>>
    /\ UNCHANGED <<spanVars, anaVars>>

-----------------------------------------------------------------------------
(* The two span functions applied to argument lists.                       *)

MaxAngles   == 4
AngleValues == {-10, 0, 90, 120, 180, 240, 270, 370}
AngleLists  == UNION {[1..n -> AngleValues] : n \in 0..MaxAngles}

NotCalled == [called |-> FALSE, exc |-> "none", val |-> 0]

SpanIdle == angles_deg = <<>> /\ span_basic = NotCalled /\ span_ecl = NotCalled

SpanInit ==
    /\ angles_deg \in AngleLists
    /\ span_basic = NotCalled
    /\ span_ecl = NotCalled

\* basic_scan._circular_span_deg(angles_deg)
CallSpanBasic ==
    /\ pc = "idle" /\ apc = "idle"
    /\ ~span_basic.called
    /\ span_basic' = [called |-> TRUE, exc |-> "none",
                      val |-> _circular_span_deg(angles_deg)]
    /\ UNCHANGED <<angles_deg, span_ecl, scanVars, anaVars>>

\* eclipse2.circular_span_deg(angles_deg)
CallSpanEcl ==
    /\ pc = "idle" /\ apc = "idle"
    /\ ~span_ecl.called
    /\ LET out == circular_span_deg(angles_deg)
       IN  span_ecl' = [called |-> TRUE, exc |-> out.exc, val |-> out.val]
    /\ UNCHANGED <<angles_deg, span_basic, scanVars, anaVars>>

-----------------------------------------------------------------------------
(* Analytic candidates: eclipse2.main.                                     *)
(*                                                                         *)
(* Units.  Mean longitudes are integer degrees and a full turn is 360      *)
(* (the source works in radians and 2*pi; numerator and denominator of     *)
(* the candidate formula carry the same angular unit, so the quotient is   *)
(* the same).  Mean motions are integers in units of 1/NScale degree per   *)
(* day.  Semi-major axes are in a length unit chosen with MuScaled such    *)
(* that sqrt(MuScaled / a^3) is the mean motion in that unit.              *)

NScale   == 8
MuScaled == 1000000
MaxCand  == 3      \* verification is followed for at most MaxCand candidates
KExtra   == 100    \* how far beyond range(-200, 200) the formulas look

KLo == -200
KHi == 200
span_thresh == 10

\* planets = list(PLANET_IDS.keys())
AllPlanets == <<"Mercury", "Venus", "Mars", "Jupiter", "Saturn", "Uranus", "Neptune">>
ref  == "Jupiter"
seed == "Mars"
start == <<2026, 1, 1>>
end   == <<2028, 12, 31>>
mid   == <<2027, 1, 1>>

\* jd_from_datetime for a datetime at 00:00, times two (the Julian day
\* number of midnight ends in .5).
jd_from_datetime(dt) ==
    LET m0 == dt[2]
        y  == IF m0 <= 2 THEN dt[1] - 1 ELSE dt[1]
        m  == IF m0 <= 2 THEN m0 + 12 ELSE m0
        A  == y \div 100
        B  == 2 - A + (A \div 4)
    IN  2 * (((36525 * (y + 4716)) \div 100) + ((306001 * (m + 1)) \div 10000)
             + dt[3] + B) - 3049

ISqrt(x) == CHOOSE r \in 0..1000 : r * r <= x /\ (r + 1) * (r + 1) > x

\* math.sqrt(MU_SUN/(a_km**3))*86400
mean_motion(a_km) == ISqrt(MuScaled \div (a_km * a_km * a_km))

\* math.radians((el.Omega_deg+el.w_deg+el.M_deg)%360)
mean_longitude(el) == (el.Omega_deg + el.w_deg + el.M_deg) % 360

\* Elements responses: is there a "result", where the semi-major axis can
\* be read from (an "A = .. AU" line, the CSV column, nowhere), and whether
\* OM, W and MA are present.
ElemResponse(has_result, a_src, a, om, w, ma, angles) ==
    [has_result |-> has_result, a_src |-> a_src, a |-> a, om |-> om, w |-> w,
     ma |-> ma, angles |-> angles]

BadElemResponses ==
    { ElemResponse(FALSE, "none", 0, 0, 0, 0, FALSE),
      ElemResponse(TRUE, "none", 0, 0, 0, 0, TRUE),
      ElemResponse(TRUE, "au", 25, 0, 0, 0, FALSE) }

ElemResponsesOf(p) ==
    BadElemResponses \cup
    ( IF p \in {seed, ref}
      THEN { ElemResponse(TRUE, "au", 25, 100, 200, 60, TRUE),
             ElemResponse(TRUE, "csv", 100, 10, 20, 60, TRUE),
             ElemResponse(TRUE, "au", 1, 300, 200, 40, TRUE) }
      ELSE { ElemResponse(TRUE, "au", 4, 30, 40, 50, TRUE) } )

\* fetch_elements, from the response on
fetch_elements(r, epoch_dt) ==
    IF ~r.has_result THEN Raise("KeyError")
    ELSE IF r.a_src = "none" THEN Raise("ValueError")
    ELSE IF ~r.angles THEN Raise("AttributeError")
    ELSE Ok([epoch_jd |-> jd_from_datetime(epoch_dt), a_km |-> r.a,
             Omega_deg |-> r.om, w_deg |-> r.w, M_deg |-> r.ma])

\* fetch_lon, from the response on: no status check, m.group on a failed
\* search, [0] of no lines, float() of every field that starts with a digit
\* or '-', vals[-2].
RECURSIVE DigitFields(_)
DigitFields(parts) ==
    IF parts = <<>> THEN <<>>
    ELSE IF StartsWithDigit(Head(parts))
         THEN <<Head(parts)>> \o DigitFields(Tail(parts))
         ELSE DigitFields(Tail(parts))

fetch_lon(r) ==
    IF ~r.has_result THEN Raise("KeyError")
    ELSE IF ~r.soe THEN Raise("AttributeError")
    ELSE LET lines == NonEmptyLines(r.block)
         IN  IF lines = <<>> THEN Raise("IndexError")
             ELSE LET vs == DigitFields(lines[1])
                  IN  IF \E i \in 1..Len(vs) : vs[i].kind # "num"
                      THEN Raise("ValueError")
                      ELSE IF Len(vs) < 2 THEN Raise("IndexError")
                      ELSE Ok(vs[Len(vs) - 1].val % 360)

AnaLonResponses ==
    {GoodResponse(0), GoodResponse(380), PaddedResponse(0), DateRowResponse}
    \cup (BadResponses \ {HttpErrorResponse})

\* the position of a planet name in planets (the key of elems, lam and n)
Idx(p) == CHOOSE i \in 1..Len(AllPlanets) : AllPlanets[i] = p

\* lam={p:mean_longitude(elems[p]) for p in planets}
LamOf(es) == [i \in 1..Len(es) |-> mean_longitude(es[i])]
\* n={p:mean_motion(elems[p].a_km) for p in planets}
NOf(es) == [i \in 1..Len(es) |-> mean_motion(es[i].a_km)]

\* t - t0 for one k, as the fraction num / den of a day:
\* (lam[ref]-lam[seed]+2*math.pi*k)/(n[seed]-n[ref])
Epoch(lam, n, k) ==
    [num |-> (lam[Idx(ref)] - lam[Idx(seed)] + 360 * k) * NScale,
     den |-> n[Idx(seed)] - n[Idx(ref)]]

\* jd(start) <= t <= jd(end) for t = t0 + num / den (all Julian days doubled)
InWindow(t0, t) ==
    LET lo == jd_from_datetime(start) - t0
        hi == jd_from_datetime(end) - t0
    IN  IF t.den > 0
        THEN lo * t.den <= 2 * t.num /\ 2 * t.num <= hi * t.den
        ELSE lo * t.den >= 2 * t.num /\ 2 * t.num >= hi * t.den

\* range(-200, 200)
KRange == KLo..(KHi - 1)

\* the loop "for k in range(-200,200)" over the k of lo..hi, in increasing
\* k: the epochs that pass the window test, in the order they are appended
\* to cand (the range is split in halves to keep the evaluation shallow)
RECURSIVE CandLoop(_, _, _, _, _)
CandLoop(lam, n, t0, lo, hi) ==
    IF lo > hi THEN <<>>
    ELSE IF lo = hi
         THEN IF InWindow(t0, Epoch(lam, n, lo)) THEN <<Epoch(lam, n, lo)>> ELSE <<>>
         ELSE LET half == (lo + hi) \div 2
              IN  CandLoop(lam, n, t0, lo, half) \o CandLoop(lam, n, t0, half + 1, hi)

KFirst == CHOOSE k \in KRange : \A j \in KRange : k <= j
KLast  == CHOOSE k \in KRange : \A j \in KRange : k >= j

\* candidate generation that skips the division when n[seed] = n[ref]
GenerateSkipZero(es) ==
    LET n == NOf(es)
    IN  IF n[Idx(seed)] = n[Idx(ref)] THEN Ok(<<>>)
        ELSE Ok(CandLoop(LamOf(es), n, es[Idx(ref)].epoch_jd, KFirst, KLast))

\* lines 144-154: lam, n, t0 and the candidate loop; the division raises
\* ZeroDivisionError at the first k when n[seed] = n[ref]
Generate(es) ==
    LET n == NOf(es)
    IN  IF n[Idx(seed)] - n[Idx(ref)] = 0 THEN Raise("ZeroDivisionError")
        ELSE Ok(CandLoop(LamOf(es), n, es[Idx(ref)].epoch_jd, KFirst, KLast))

\* The response text holds a longitude for eclipse2.fetch_lon: the first
\* non-blank line of the block has at least two fields starting with a digit
\* or '-', and all of those are numbers.
HasLongitudeAna(r) ==
    /\ r.has_result /\ r.soe
    /\ \E i \in 1..Len(r.block) :
          /\ r.block[i] # <<>>
          /\ \A j \in 1..(i - 1) : r.block[j] = <<>>
          /\ LET dg == {f \in 1..Len(r.block[i]) : StartsWithDigit(r.block[i][f])}
             IN  Cardinality(dg) >= 2 /\ \A f \in dg : r.block[i][f].kind = "num"

AnaIdle ==
    /\ apc = "idle" /\ asess = 0 /\ asessions = 0 /\ elems = <<>> /\ cand = <<>>
    /\ ci = 0 /\ alons = <<>> /\ ahits = <<>> /\ afetchLog = <<>> /\ aexc = "none"

AnaInit ==
    /\ apc = "start" /\ asess = 0 /\ asessions = 0 /\ elems = <<>> /\ cand = <<>>
    /\ ci = 0 /\ alons = <<>> /\ ahits = <<>> /\ afetchLog = <<>> /\ aexc = "none"

\* with requests.Session() as sess:
AOpen ==
    /\ apc = "start"
    /\ asessions' = asessions + 1
    /\ asess' = asessions + 1
    /\ apc' = "elements"
    /\ UNCHANGED <<elems, cand, ci, alons, ahits, afetchLog, aexc>>
    /\ UNCHANGED <<spanVars, scanVars>>

\* for p in planets: elems[p]=fetch_elements(PLANET_IDS[p],mid,sess)
AFetchElements ==
    /\ apc = "elements"
    /\ Len(elems) < Len(AllPlanets)
    /\ LET p == AllPlanets[Len(elems) + 1] IN
       \E r \in ElemResponsesOf(p) :
          LET out == fetch_elements(r, mid)
          IN  /\ afetchLog' = Append(afetchLog,
                     [kind |-> "elements", cand |-> 0, body |-> PLANET_IDS[p],
                      sess |-> asess, parsed |-> (out.exc = "none")])
              /\ IF out.exc # "none"
                 THEN /\ apc' = "raised" /\ aexc' = out.exc /\ asess' = 0
                      /\ elems' = elems
                 ELSE /\ elems' = Append(elems, out.val)
                      /\ UNCHANGED <<apc, aexc, asess>>
    /\ UNCHANGED <<asessions, cand, ci, alons, ahits>>
    /\ UNCHANGED <<spanVars, scanVars>>

\* lam, n, t0 and the candidate loop (lines 144-156)
AGenerate ==
    /\ apc = "elements"
    /\ Len(elems) = Len(AllPlanets)
    /\ LET out == Generate(elems)
       IN  IF out.exc # "none"
           THEN /\ apc' = "raised" /\ aexc' = out.exc /\ asess' = 0
                /\ UNCHANGED <<cand, ci>>
           ELSE /\ cand' = out.val /\ ci' = 1 /\ apc' = "verify"
                /\ UNCHANGED <<aexc, asess>>
    /\ UNCHANGED <<asessions, elems, alons, ahits, afetchLog>>
    /\ UNCHANGED <<spanVars, scanVars>>

\* one element of [fetch_lon(PLANET_IDS[p],jd,sess) for p in planets]
AFetchLon ==
    /\ apc = "verify"
    /\ Len(cand) <= MaxCand
    /\ ci <= Len(cand)
    /\ Len(alons) < Len(AllPlanets)
    /\ LET p == AllPlanets[Len(alons) + 1] IN
       \E r \in AnaLonResponses :
          LET out == fetch_lon(r)
          IN  /\ afetchLog' = Append(afetchLog,
                     [kind |-> "lon", cand |-> ci, body |-> PLANET_IDS[p],
                      sess |-> asess, parsed |-> HasLongitudeAna(r)])
              /\ IF out.exc # "none"
                 THEN /\ apc' = "raised" /\ aexc' = out.exc /\ asess' = 0
                      /\ alons' = alons
                 ELSE /\ alons' = Append(alons, out.val)
                      /\ UNCHANGED <<apc, aexc, asess>>
    /\ UNCHANGED <<asessions, elems, cand, ci, ahits>>
    /\ UNCHANGED <<spanVars, scanVars>>

\* span=circular_span_deg(lons); if span<=span_thresh: hits.append((jd,span))
AEndCand ==
    /\ apc = "verify"
    /\ Len(cand) <= MaxCand
    /\ ci <= Len(cand)
    /\ Len(alons) = Len(AllPlanets)
    /\ LET out == circular_span_deg(alons)
       IN  IF out.exc # "none"
           THEN /\ apc' = "raised" /\ aexc' = out.exc /\ asess' = 0
                /\ UNCHANGED <<ci, alons, ahits>>
           ELSE /\ ahits' = IF out.val <= span_thresh
                            THEN Append(ahits, <<cand[ci], out.val>>) ELSE ahits
                /\ ci' = ci + 1
                /\ alons' = <<>>
                /\ UNCHANGED <<apc, aexc, asess>>
    /\ UNCHANGED <<asessions, elems, cand, afetchLog>>
    /\ UNCHANGED <<spanVars, scanVars>>

\* the candidate loop is over: the with-block ends, the hits are printed
AFinish ==
    /\ apc = "verify"
    /\ Len(cand) <= MaxCand
    /\ ci > Len(cand)
    /\ asess' = 0
    /\ apc' = "done"
    /\ UNCHANGED <<asessions, elems, cand, ci, alons, ahits, afetchLog, aexc>>
    /\ UNCHANGED <<spanVars, scanVars>>

-----------------------------------------------------------------------------
(* Specifications: one per program, and all of them together.              *)

SpanNext == CallSpanBasic \/ CallSpanEcl
ScanNext == Call \/ Fetch \/ EndDay \/ Finish
AnaNext  == AOpen \/ AFetchElements \/ AGenerate \/ AFetchLon \/ AEndCand \/ AFinish

InitSpan == SpanInit /\ ScanIdle /\ AnaIdle
InitScan == SpanIdle /\ ScanInit /\ AnaIdle
InitAna  == SpanIdle /\ ScanIdle /\ AnaInit

SpecSpan == InitSpan /\ [][SpanNext]_vars
SpecScan == InitScan /\ [][ScanNext]_vars
SpecAna  == InitAna /\ [][AnaNext]_vars

Init == InitSpan \/ InitScan \/ InitAna
Next == SpanNext \/ ScanNext \/ AnaNext
Spec == Init /\ [][Next]_vars

-----------------------------------------------------------------------------
(* Properties.                                                             *)

ListReturned == fn = "list_planetary_alignments" /\ pc = "returned"

\* the span computed on a scanned day, and whether that day was a hit
Scanned(day) == \E j \in 1..Len(dayLog) : dayLog[j][1] = day
SpanOn(day)  == dayLog[CHOOSE j \in 1..Len(dayLog) : dayLog[j][1] = day][2]
HitDay(day)  == Scanned(day) /\ SpanOn(day) <= span_threshold_deg

\* C1: every returned interval has start <= end, lies within
\* [start_day, end_day], and each of its days was scanned with a span of at
\* most span_threshold_deg.
C1_IntervalsAreHits ==
    ListReturned =>
        \A i \in 1..Len(ret) :
            /\ ret[i].start <= ret[i].end
            /\ start_day <= ret[i].start
            /\ ret[i].end <= end_day
            /\ \A day \in ret[i].start..ret[i].end : HitDay(day)

C1_Witness ==
    /\ ListReturned
    /\ Len(ret) = 2
    /\ ret[1].start < ret[1].end
    /\ ret[1].end + 1 < ret[2].start

\* C2: the returned list is exactly the maximal runs of consecutive hit days
\* in chronological order: every day of an interval is a hit, the days just
\* before and after it are not, intervals follow each other in time, every
\* hit day is in an interval, max_span_deg is the largest span of the run
\* and planets is the argument list.
C2_MaximalRuns ==
    ListReturned =>
        /\ \A i \in 1..Len(ret) :
              /\ \A day \in ret[i].start..ret[i].end : HitDay(day)
              /\ ret[i].start <= ret[i].end
              /\ ~HitDay(ret[i].start - 1)
              /\ ~HitDay(ret[i].end + 1)
              /\ \E day \in ret[i].start..ret[i].end :
                    ret[i].max_span_deg = SpanOn(day)
              /\ \A day \in ret[i].start..ret[i].end :
                    SpanOn(day) <= ret[i].max_span_deg
              /\ ret[i].planets = planets
        /\ \A i \in 1..(Len(ret) - 1) : ret[i].end < ret[i + 1].start
        /\ \A day \in start_day..end_day :
              HitDay(day) => \E i \in 1..Len(ret) :
                                 ret[i].start <= day /\ day <= ret[i].end

C2_Witness ==
    /\ ListReturned
    /\ Len(ret) = 2
    /\ ret[1].start + 1 = ret[1].end
    /\ SpanOn(ret[1].start) < SpanOn(ret[1].end)
    /\ ret[1].max_span_deg = SpanOn(ret[1].end)
    /\ ret[2].start = ret[2].end
    /\ Scanned(ret[1].end + 1) /\ ~HitDay(ret[1].end + 1)

\* C3: a planets argument with a name that is not a key of PLANET_IDS, at
\* whatever position, makes the function raise ValueError with no session
\* constructed, no request issued and nothing returned.
C3_UnknownNameFailsFirst ==
    ( /\ pc \notin {"idle", "start"}
      /\ \E i \in 1..Len(planets) : planets[i] \notin DOMAIN PLANET_IDS )
    => /\ pc = "raised"
       /\ exc = "ValueError"
       /\ sessions = 0
       /\ fetchLog = <<>>
       /\ dayLog = <<>>
       /\ ret = <<>>

C3_Witness ==
    /\ pc = "raised"
    /\ Len(planets) = 2
    /\ planets[1] \in DOMAIN PLANET_IDS
    /\ planets[2] \notin DOMAIN PLANET_IDS
    /\ sessions = 0

\* C4: a response that holds no longitude ends the search with an exception:
\* it is the last request issued (no retry), nothing is returned, no
\* longitude was recorded for it and its day (candidate) was not completed.
C4_UnparseableAborts ==
    /\ \A i \in 1..Len(fetchLog) :
          ~fetchLog[i].parsed =>
              /\ i = Len(fetchLog)
              /\ pc = "raised"
              /\ exc \in {"ValueError", "HTTPError"}
              /\ ret = <<>>
              /\ ~Scanned(fetchLog[i].day)
              /\ d = fetchLog[i].day
              /\ Len(lons) = Cardinality({j \in 1..Len(fetchLog) :
                                fetchLog[j].day = d /\ fetchLog[j].parsed})
    /\ \A i \in 1..Len(afetchLog) :
          ~afetchLog[i].parsed =>
              /\ i = Len(afetchLog)
              /\ apc = "raised"
              /\ aexc # "none"
              /\ afetchLog[i].kind = "lon" =>
                    /\ ci = afetchLog[i].cand
                    /\ \A h \in 1..Len(ahits) : ahits[h][1] # cand[ci]
                    /\ Len(alons) = Cardinality({j \in 1..Len(afetchLog) :
                                      /\ afetchLog[j].kind = "lon"
                                      /\ afetchLog[j].cand = ci
                                      /\ afetchLog[j].parsed})

C4_Witness ==
    /\ pc = "raised"
    /\ fn = "list_planetary_alignments"
    /\ hits # <<>>
    /\ Len(lons) = 1
    /\ ~fetchLog[Len(fetchLog)].parsed
    /\ exc = "ValueError"

-----------------------------------------------------------------------------
\* the shortest arc that starts at one of the angles and contains them all
ArcFrom(angles, i) ==
    LET S == {(angles[j] - angles[i]) % 360 : j \in 1..Len(angles)}
    IN  CHOOSE m \in S : \A x \in S : x <= m
MinArc(angles) ==
    LET S == {ArcFrom(angles, i) : i \in 1..Len(angles)}
    IN  CHOOSE m \in S : \A x \in S : m <= x
AllCoincide(angles) ==
    \A i, j \in 1..Len(angles) : angles[i] % 360 = angles[j] % 360
EvenlySpaced(angles) ==
    /\ 360 % Len(angles) = 0
    /\ Cardinality({angles[i] % 360 : i \in 1..Len(angles)}) = Len(angles)
    /\ \A i \in 1..Len(angles) : \E j \in 1..Len(angles) :
          (angles[j] - angles[i]) % 360 = 360 \div Len(angles)

SpanResults ==
    (IF span_basic.called THEN {span_basic} ELSE {})
    \cup (IF span_ecl.called THEN {span_ecl} ELSE {})

\* C5 as stated: for n >= 2 angles the span lies in [0, 180].
C5_SpanAtMost180 ==
    Len(angles_deg) >= 2 =>
        \A r \in SpanResults : r.exc = "none" /\ 0 <= r.val /\ r.val <= 180

\* C5 (amended): for n >= 2 angles the span lies in [0, 360), and in
\* [0, 180] when n = 2.
C5_SpanBelow360 ==
    Len(angles_deg) >= 2 =>
        \A r \in SpanResults :
            /\ r.exc = "none"
            /\ 0 <= r.val /\ r.val < 360
            /\ Len(angles_deg) = 2 => r.val <= 180

C5_Witness ==
    /\ Len(angles_deg) = 3
    /\ span_basic.called /\ span_basic.val = 240
    /\ span_ecl.called /\ span_ecl.val = 240

\* C6: for n >= 2 angles the span is the length of the smallest arc that
\* contains every angle (mod 360); it is 0 when all angles coincide and
\* 360*(n-1)/n for n evenly spaced angles.
C6_SpanIsMinimalArc ==
    Len(angles_deg) >= 2 =>
        \A r \in SpanResults :
            /\ r.exc = "none"
            /\ r.val = MinArc(angles_deg)
            /\ AllCoincide(angles_deg) => r.val = 0
            /\ EvenlySpaced(angles_deg) =>
                  Len(angles_deg) * r.val = 360 * (Len(angles_deg) - 1)

C6_Witness ==
    /\ Len(angles_deg) = 4
    /\ EvenlySpaced(angles_deg)
    /\ angles_deg[1] > angles_deg[2]
    /\ span_basic.called /\ span_basic.val = 270
    /\ span_ecl.called /\ span_ecl.val = 270

\* C7: with fewer than 2 angles both span functions return 0 and raise
\* nothing.
C7_ShortListsGiveZero ==
    Len(angles_deg) < 2 =>
        \A r \in SpanResults : r.exc = "none" /\ r.val = 0

-----------------------------------------------------------------------------
Generated == Len(elems) = Len(AllPlanets) /\ apc # "elements"

\* C8: when n[seed] = n[ref], main ends with an exception: no candidate list
\* is produced and no longitude is requested.
C8_EqualMotionsRaise ==
    (Generated /\ NOf(elems)[Idx(seed)] = NOf(elems)[Idx(ref)])
    => /\ apc = "raised"
       /\ aexc = "ZeroDivisionError"
       /\ cand = <<>>
       /\ ci = 0
       /\ \A i \in 1..Len(afetchLog) : afetchLog[i].kind = "elements"

C8_Witness ==
    /\ Generated
    /\ NOf(elems)[Idx(seed)] = NOf(elems)[Idx(ref)]
    /\ apc = "raised"
    /\ Len(afetchLog) = Len(AllPlanets)

\* C9: with n[seed] # n[ref], cand holds exactly the epochs t_k inside the
\* window, for every integer k (followed KExtra beyond the loop's range).
KWide == (KLo - KExtra)..(KHi + KExtra)
C9_CandidatesCoverWindow ==
    (Generated /\ apc \in {"verify", "done"}) =>
        LET lam == LamOf(elems)
            n   == NOf(elems)
            t0  == elems[Idx(ref)].epoch_jd
        IN  /\ \A i \in 1..Len(cand) :
                  /\ InWindow(t0, cand[i])
                  /\ \E k \in KWide : cand[i] = Epoch(lam, n, k)
            /\ \A k \in KWide :
                  InWindow(t0, Epoch(lam, n, k)) =>
                      \E i \in 1..Len(cand) : cand[i] = Epoch(lam, n, k)

\* Every k of the loop's own range is covered (what the code does ensure).
C9_LoopRangeCovered ==
    (Generated /\ apc \in {"verify", "done"}) =>
        LET lam == LamOf(elems)
            n   == NOf(elems)
            t0  == elems[Idx(ref)].epoch_jd
        IN  /\ \A i \in 1..Len(cand) :
                  /\ InWindow(t0, cand[i])
                  /\ \E k \in KRange : cand[i] = Epoch(lam, n, k)
            /\ \A k \in KRange :
                  InWindow(t0, Epoch(lam, n, k)) =>
                      \E i \in 1..Len(cand) : cand[i] = Epoch(lam, n, k)

-----------------------------------------------------------------------------
\* C10: one search constructs exactly one session, every request of the
\* search goes through it, requests are issued day by day (candidate by
\* candidate) in the order of the planets list, and the session is released
\* when the search ends, by return or by exception.
C10_OneSessionPerSearch ==
    /\ sessions <= 1
    /\ (pc \in {"loop", "returned"} \/ fetchLog # <<>>) => sessions = 1
    /\ pc = "loop" => sess = 1
    /\ pc \in {"returned", "raised"} => sess = 0
    /\ \A i \in 1..Len(fetchLog) :
          /\ fetchLog[i].sess = 1
          /\ fetchLog[i].day = start_day + ((i - 1) \div Len(planets))
          /\ fetchLog[i].body = PLANET_IDS[planets[((i - 1) % Len(planets)) + 1]]
    /\ asessions <= 1
    /\ apc \notin {"idle", "start"} => asessions = 1
    /\ apc \in {"elements", "verify"} => asess = 1
    /\ apc \in {"done", "raised"} => asess = 0
    /\ \A i \in 1..Len(afetchLog) :
          LET np == Len(AllPlanets) IN
          /\ afetchLog[i].sess = 1
          /\ afetchLog[i].body = PLANET_IDS[AllPlanets[((i - 1) % np) + 1]]
          /\ afetchLog[i].kind = IF i <= np THEN "elements" ELSE "lon"
          /\ afetchLog[i].cand = (i - 1) \div np

C10_Witness ==
    /\ pc = "raised"
    /\ Len(planets) = 2
    /\ Len(fetchLog) = 4
    /\ d = start_day + 1
    /\ sess = 0
    /\ sessions = 1

====
